---- MODULE Spec2Model ----
(***************************************************************************)
(* A model of qunetsim/objects/qubit.py: the Qubit wrapper object, its     *)
(* accessors, the delegation of every operation to host.backend, the       *)
(* validation of custom gates (is_unitary, InputError) and the fidelity    *)
(* computation.                                                            *)
(*                                                                         *)
(* The backend and the host are collaborators outside the file: a backend  *)
(* is modelled as a recording double.  Every call the Qubit makes is       *)
(* appended to `calls`; the reply of the double (a value, or an exception  *)
(* raised at the k-th call) is an input of the action.                     *)
(***************************************************************************)
EXTENDS Integers, Sequences, FiniteSets, TLC

VARIABLES
    objs,      \* the Qubit objects that exist: reference -> fields
    calls,     \* backend calls made by the last operation, in order
    outcome,   \* how the last operation ended: a returned value or a raised exception
    op,        \* the last operation: name, receiver, arguments, backend replies
    gates,     \* the values a caller holds to pass as the `gate` argument
    dens       \* what backend.density_operator reports for each qubit

vars == <<objs, calls, outcome, op, gates, dens>>

\* ------------------------------------------------------------------ bounds

\* rotation angles are drawn from 0..MaxAngle
MaxAngle == 1
\* explicit ids (q_id, new_id) that are integers are drawn from the powers of ten up to 10^MaxIdDigits
MaxIdDigits == 1
\* gate matrices have at most MaxDim rows and columns
MaxDim == 4
\* dense gate matrices (every entry free) have at most MaxDense entries
MaxDense == 4
\* diagonal entries of a reported density operator are +-k^2, k in 0..MaxRoot
MaxRoot == 1

\* ------------------------------------------------------------ Python values

PyNone == [none |-> TRUE]
PyStr(s) == [str |-> s]
PyInt(n) == [int |-> n]
PyBool(b) == [bool |-> b]
\* a backend's opaque physical qubit
Handle(h) == [handle |-> h]
\* a reference to a Qubit object (objects are passed by reference)
Ref(r) == [ref |-> r]

IsStr(v) == DOMAIN v = {"str"}
IsInt(v) == DOMAIN v = {"int"}
IsBool(v) == DOMAIN v = {"bool"}

DigitChar(d) ==
    CASE d = 0 -> "0" [] d = 1 -> "1" [] d = 2 -> "2" [] d = 3 -> "3" [] d = 4 -> "4"
      [] d = 5 -> "5" [] d = 6 -> "6" [] d = 7 -> "7" [] d = 8 -> "8" [] d = 9 -> "9"

RECURSIVE NatToStr(_)
NatToStr(n) == IF n < 10 THEN DigitChar(n) ELSE NatToStr(n \div 10) \o DigitChar(n % 10)

\* Python's str(v) on the values the model passes as ids
Str(v) ==
    IF IsStr(v) THEN v.str
    ELSE IF IsInt(v) THEN (IF v.int < 0 THEN "-" \o NatToStr(-v.int) ELSE NatToStr(v.int))
    ELSE IF IsBool(v) THEN (IF v.bool THEN "True" ELSE "False")
    ELSE "None"

\* ------------------------------------------------------- hosts and backends

\* the host objects a qubit can belong to; host.backend is the host's own double
Hosts == {"alice", "bob"}
\* host.host_id
HostId(h) == IF h = "alice" THEN PyStr("A") ELSE PyStr("B")

\* exceptions a backend may raise
BackendErrors == {[exc |-> "QubitReleasedError", msg |-> "backend"],
                  [exc |-> "InvalidHandleError", msg |-> "backend"]}

\* one recorded call host.backend.fn(args)
Call(h, fn, args) == [backend |-> h, fn |-> fn, args |-> args]

Return(v) == [kind |-> "return", val |-> v]
Raise(e) == [kind |-> "raise", err |-> e]

\* The backend replies of one operation: failAt = 0 when no call fails, else the
\* position of the call that raises env.err.
NoFail == [failAt |-> 0, err |-> PyNone]
Fails(n) == {NoFail} \cup {[failAt |-> k, err |-> e] : k \in 1..n, e \in BackendErrors}

\* Straight-line code issuing the calls cs in order: the calls that are made, and
\* whether one of them raised (the rest is then never issued).
Issue(cs, env) ==
    IF env.failAt \in 1..Len(cs)
    THEN [calls |-> SubSeq(cs, 1, env.failAt), raised |-> TRUE]
    ELSE [calls |-> cs, raised |-> FALSE]

\* ------------------------------------------------------------------ objects

\* the object under test and the partner qubits passed as arguments
Tested == {"q1"}
Partners == {"q2", "q3"}
Refs == Tested \cup Partners

PartnerObjs ==
    [r \in Partners |->
        [id |-> r, host |-> IF r = "q2" THEN "bob" ELSE "alice",
         blocked |-> FALSE, qubit |-> Handle(r)]]

\* --------------------------------------------------- construction, accessors

\* Qubit.initialize_qubit: the calls it issues, in program order
initialize_qubit(host, self, theta, phi) ==
    <<Call(host, "ry", <<Ref(self), theta>>),
      Call(host, "rz", <<Ref(self), phi>>)>>

\* __init__ testing the angles for truth (`if theta and phi`): an angle of 0 counts
\* as missing
Qubit_init_truthy_angles(os, self, a, env) ==
    LET id == IF a.q_id # PyNone THEN Str(a.q_id) ELSE env.uuid
        create == IF a.qubit # PyNone THEN <<>>
                  ELSE <<Call(a.host, "create_qubit", <<HostId(a.host)>>)>>
        qubit == IF a.qubit # PyNone THEN a.qubit ELSE env.handle
        init == IF a.theta \notin {PyNone, PyInt(0)} /\ a.phi \notin {PyNone, PyInt(0)}
                THEN initialize_qubit(a.host, self, a.theta, a.phi)
                ELSE <<>>
        r == Issue(create \o init, env)
        obj == [id |-> id, host |-> a.host, blocked |-> a.blocked, qubit |-> qubit]
    IN  [calls |-> r.calls,
         out |-> IF r.raised THEN Raise(env.err) ELSE Return(PyNone),
         objs |-> IF r.raised THEN os ELSE (self :> obj) @@ os]

\* __init__ asking the backend for a qubit whether or not one was supplied
Qubit_init_always_creates(os, self, a, env) ==
    LET id == IF a.q_id # PyNone THEN Str(a.q_id) ELSE env.uuid
        create == <<Call(a.host, "create_qubit", <<HostId(a.host)>>)>>
        qubit == env.handle
        init == IF a.theta # PyNone /\ a.phi # PyNone
                THEN initialize_qubit(a.host, self, a.theta, a.phi)
                ELSE <<>>
        r == Issue(create \o init, env)
        obj == [id |-> id, host |-> a.host, blocked |-> a.blocked, qubit |-> qubit]
    IN  [calls |-> r.calls,
         out |-> IF r.raised THEN Raise(env.err) ELSE Return(PyNone),
         objs |-> IF r.raised THEN os ELSE (self :> obj) @@ os]

\* __init__ generating an id whether or not one was supplied
Qubit_init_ignores_q_id(os, self, a, env) ==
    LET id == env.uuid
        create == IF a.qubit # PyNone THEN <<>>
                  ELSE <<Call(a.host, "create_qubit", <<HostId(a.host)>>)>>
        qubit == IF a.qubit # PyNone THEN a.qubit ELSE env.handle
        init == IF a.theta # PyNone /\ a.phi # PyNone
                THEN initialize_qubit(a.host, self, a.theta, a.phi)
                ELSE <<>>
        r == Issue(create \o init, env)
        obj == [id |-> id, host |-> a.host, blocked |-> a.blocked, qubit |-> qubit]
    IN  [calls |-> r.calls,
         out |-> IF r.raised THEN Raise(env.err) ELSE Return(PyNone),
         objs |-> IF r.raised THEN os ELSE (self :> obj) @@ os]

\* Qubit.__init__(host, qubit, q_id, blocked, theta, phi).  env.uuid is what
\* str(uuid.uuid4()) yields and env.handle what backend.create_qubit returns.
\* A constructor that raises returns no object.
Qubit_init(os, self, a, env) ==
    LET id == IF a.q_id # PyNone THEN Str(a.q_id) ELSE env.uuid
        create == IF a.qubit # PyNone THEN <<>>
                  ELSE <<Call(a.host, "create_qubit", <<HostId(a.host)>>)>>
        qubit == IF a.qubit # PyNone THEN a.qubit ELSE env.handle
        init == IF a.theta # PyNone /\ a.phi # PyNone
                THEN initialize_qubit(a.host, self, a.theta, a.phi)
                ELSE <<>>
        r == Issue(create \o init, env)
        obj == [id |-> id, host |-> a.host, blocked |-> a.blocked, qubit |-> qubit]
    IN  [calls |-> r.calls,
         out |-> IF r.raised THEN Raise(env.err) ELSE Return(PyNone),
         objs |-> IF r.raised THEN os ELSE (self :> obj) @@ os]

\* the setters of the properties qubit, host, id and blocked
qubit_setter(os, self, a, env) ==
    [calls |-> <<>>, out |-> Return(PyNone), objs |-> [os EXCEPT ![self].qubit = a.qubit]]

host_setter(os, self, a, env) ==
    [calls |-> <<>>, out |-> Return(PyNone), objs |-> [os EXCEPT ![self].host = a.host]]

id_setter(os, self, a, env) ==
    [calls |-> <<>>, out |-> Return(PyNone), objs |-> [os EXCEPT ![self].id = Str(a.new_id)]]

blocked_setter(os, self, a, env) ==
    [calls |-> <<>>, out |-> Return(PyNone), objs |-> [os EXCEPT ![self].blocked = a.state]]

\* ---------------------------------------------------------------- delegation

\* a delegation that catches what the backend raises and returns normally
Forward_swallowing(os, cs, env, ret) ==
    [calls |-> Issue(cs, env).calls, out |-> Return(ret), objs |-> os]

\* A method whose body is the calls cs and whose value is ret (None for a body
\* without a return statement).  Nothing is caught: a raising call ends the method
\* with that exception.
Forward(os, cs, env, ret) ==
    LET r == Issue(cs, env)
    IN  [calls |-> r.calls,
         out |-> IF r.raised THEN Raise(env.err) ELSE Return(ret),
         objs |-> os]

\* send_to marking the qubit as blocked once it is handed to the backend
send_to_blocking(os, self, a, env) ==
    Forward([os EXCEPT ![self].blocked = TRUE],
            <<Call(os[self].host, "send_qubit_to",
                   <<Ref(self), HostId(os[self].host), a.receiver_id>>)>>, env, PyNone)

send_to(os, self, a, env) ==
    Forward(os, <<Call(os[self].host, "send_qubit_to",
                       <<Ref(self), HostId(os[self].host), a.receiver_id>>)>>, env, PyNone)

release(os, self, a, env) ==
    Forward(os, <<Call(os[self].host, "release", <<Ref(self)>>)>>, env, PyNone)

I(os, self, a, env) == Forward(os, <<Call(os[self].host, "I", <<Ref(self)>>)>>, env, PyNone)

X(os, self, a, env) == Forward(os, <<Call(os[self].host, "X", <<Ref(self)>>)>>, env, PyNone)

Y(os, self, a, env) == Forward(os, <<Call(os[self].host, "Y", <<Ref(self)>>)>>, env, PyNone)

Z(os, self, a, env) == Forward(os, <<Call(os[self].host, "Z", <<Ref(self)>>)>>, env, PyNone)

T(os, self, a, env) == Forward(os, <<Call(os[self].host, "T", <<Ref(self)>>)>>, env, PyNone)

K(os, self, a, env) == Forward(os, <<Call(os[self].host, "K", <<Ref(self)>>)>>, env, PyNone)

H(os, self, a, env) == Forward(os, <<Call(os[self].host, "H", <<Ref(self)>>)>>, env, PyNone)

rx(os, self, a, env) ==
    Forward(os, <<Call(os[self].host, "rx", <<Ref(self), a.phi>>)>>, env, PyNone)

ry(os, self, a, env) ==
    Forward(os, <<Call(os[self].host, "ry", <<Ref(self), a.phi>>)>>, env, PyNone)

rz(os, self, a, env) ==
    Forward(os, <<Call(os[self].host, "rz", <<Ref(self), a.phi>>)>>, env, PyNone)

cnot(os, self, a, env) ==
    Forward(os, <<Call(os[self].host, "cnot", <<Ref(self), Ref(a.target)>>)>>, env, PyNone)

cphase(os, self, a, env) ==
    Forward(os, <<Call(os[self].host, "cphase", <<Ref(self), Ref(a.target)>>)>>, env, PyNone)

\* env.ret is the value the backend returns
density_operator(os, self, a, env) ==
    Forward(os, <<Call(os[self].host, "density_operator", <<Ref(self)>>)>>, env, env.ret)

\* measure without its return statement
measure_without_return(os, self, a, env) ==
    Forward(os, <<Call(os[self].host, "measure", <<Ref(self), a.non_destructive>>)>>,
            env, PyNone)

measure(os, self, a, env) ==
    Forward(os, <<Call(os[self].host, "measure", <<Ref(self), a.non_destructive>>)>>,
            env, env.ret)

\* ---------------------------------------------------------- numpy arrays

\* Complex numbers with integer parts, <<re, im>>.
Zero == <<0, 0>>
One == <<1, 0>>
Imag == <<0, 1>>
CAdd(x, y) == <<x[1] + y[1], x[2] + y[2]>>
CMul(x, y) == <<x[1] * y[1] - x[2] * y[2], x[1] * y[2] + x[2] * y[1]>>
CConj(x) == <<x[1], -x[2]>>

RECURSIVE CSum(_, _)
\* the sum of f[1], ..., f[n]
CSum(f, n) == IF n = 0 THEN Zero ELSE CAdd(CSum(f, n - 1), f[n])

\* An array is [ndim, data]: data holds the rows of a 2-d array, the single row
\* of a 1-d array, the single entry (as a 1 x 1 row) of a 0-d array.
Array(ndim, data) == [ndim |-> ndim, data |-> data]
NRows(x) == Len(x.data)
NCols(x) == Len(x.data[1])

\* x.shape
shape(x) ==
    CASE x.ndim = 0 -> <<>>
      [] x.ndim = 1 -> <<NCols(x)>>
      [] x.ndim = 2 -> <<NRows(x), NCols(x)>>

\* np.eye(n)
eye(n) == Array(2, [i \in 1..n |-> [j \in 1..n |-> IF i = j THEN One ELSE Zero]])

\* x.conj().T: the transpose reverses the axes, so it changes 2-d arrays only
conj_T(x) ==
    IF x.ndim = 2
    THEN Array(2, [j \in 1..NCols(x) |-> [i \in 1..NRows(x) |-> CConj(x.data[i][j])]])
    ELSE Array(x.ndim, [i \in 1..NRows(x) |-> [j \in 1..NCols(x) |-> CConj(x.data[i][j])]])

\* x.dot(y) for two 2-d arrays (the matrix product; the inner sizes agree when x
\* is y.conj().T) and for two 1-d arrays of one length (the scalar sum of products).
\* A 0-d array multiplies.
dot(x, y) ==
    CASE x.ndim = 2 /\ y.ndim = 2 ->
            Array(2, [i \in 1..NRows(x) |-> [j \in 1..NCols(y) |->
                CSum([k \in 1..NCols(x) |-> CMul(x.data[i][k], y.data[k][j])], NCols(x))]])
      [] x.ndim = 1 /\ y.ndim = 1 ->
            Array(0, <<<<CSum([k \in 1..NCols(x) |-> CMul(x.data[1][k], y.data[1][k])],
                              NCols(x))>>>>)
      [] x.ndim = 0 /\ y.ndim = 0 ->
            Array(0, <<<<CMul(x.data[1][1], y.data[1][1])>>>>)

\* np.isclose on two entries: |a - b| <= atol + rtol * |b| with atol = 1e-8 and
\* rtol = 1e-5.  Two distinct entries with integer parts differ by at least 1, which
\* the tolerance admits only for |b| near 10^5 and beyond; below that the test is
\* equality.
isclose(a, b) == a = b

\* entry (i, j) of x stretched to a shape it broadcasts to
Stretched(x, i, j) ==
    x.data[IF NRows(x) = 1 THEN 1 ELSE i][IF NCols(x) = 1 THEN 1 ELSE j]

Max(m, n) == IF m >= n THEN m ELSE n

\* np.allclose(x, y): the shapes broadcast when, axis by axis from the right, the
\* sizes are equal or one of them is 1; otherwise numpy raises ValueError.
allclose(x, y) ==
    LET ok(m, n) == m = n \/ m = 1 \/ n = 1
    IN  IF ok(NRows(x), NRows(y)) /\ ok(NCols(x), NCols(y))
        THEN Return(\A i \in 1..Max(NRows(x), NRows(y)) :
                    \A j \in 1..Max(NCols(x), NCols(y)) :
                        isclose(Stretched(x, i, j), Stretched(y, i, j)))
        ELSE Raise([exc |-> "ValueError",
                    msg |-> "operands could not be broadcast together"])

\* ------------------------------------------------------ custom gate checks

\* is_unitary with the conjugation left out: m.T.dot(m)
is_unitary_without_conj(m) ==
    IF m.ndim = 0
    THEN Raise([exc |-> "IndexError", msg |-> "tuple index out of range"])
    ELSE allclose(eye(shape(m)[1]),
                  dot(IF m.ndim = 2
                      THEN Array(2, [j \in 1..NCols(m) |-> [i \in 1..NRows(m) |-> m.data[i][j]]])
                      ELSE Array(m.ndim, m.data),
                      m))

\* is_unitary(m): np.allclose(np.eye(m.shape[0]), m.conj().T.dot(m)).  A 0-d array
\* has no shape[0].
is_unitary(m) ==
    IF m.ndim = 0
    THEN Raise([exc |-> "IndexError", msg |-> "tuple index out of range"])
    ELSE allclose(eye(shape(m)[1]), dot(conj_T(m), m))

\* InputError(*args): __init__(self, message) takes exactly one argument
InputError(args) ==
    IF Len(args) = 1
    THEN Return([exc |-> "InputError", msg |-> args[1]])
    ELSE Raise([exc |-> "TypeError",
                msg |-> "InputError.__init__() missing 1 required positional argument: 'message'"])

\* `raise InputError`: raising a class instantiates it with no arguments; an
\* exception raised by the instantiation is the one that propagates.
raise_InputError ==
    LET made == InputError(<<>>)
    IN  IF made.kind = "raise" THEN made ELSE Raise(made.val)

\* isinstance(gate, np.ndarray)
isinstance_ndarray(gate) == "type" \in DOMAIN gate /\ gate.type = "ndarray"

Rejected(os, out) == [calls |-> <<>>, out |-> out, objs |-> os]

custom_gate(os, self, a, env) ==
    IF ~isinstance_ndarray(a.gate) THEN Rejected(os, raise_InputError)
    ELSE LET u == is_unitary(a.gate)
         IN  IF u.kind = "raise" THEN Rejected(os, u)
             ELSE IF ~u.val THEN Rejected(os, raise_InputError)
             ELSE IF shape(a.gate) # <<2, 2>> THEN Rejected(os, raise_InputError)
             ELSE Forward(os, <<Call(os[self].host, "custom_gate",
                                     <<Ref(self), a.gate>>)>>, env, PyNone)

custom_controlled_gate(os, self, a, env) ==
    IF ~isinstance_ndarray(a.gate) THEN Rejected(os, raise_InputError)
    ELSE LET u == is_unitary(a.gate)
         IN  IF u.kind = "raise" THEN Rejected(os, u)
             ELSE IF ~u.val THEN Rejected(os, raise_InputError)
             ELSE IF shape(a.gate) # <<2, 2>> THEN Rejected(os, raise_InputError)
             ELSE Forward(os, <<Call(os[self].host, "custom_controlled_gate",
                                     <<Ref(self), Ref(a.target), a.gate>>)>>, env, PyNone)

custom_two_qubit_control_gate(os, self, a, env) ==
    IF ~isinstance_ndarray(a.gate) THEN Rejected(os, raise_InputError)
    ELSE LET u == is_unitary(a.gate)
         IN  IF u.kind = "raise" THEN Rejected(os, u)
             ELSE IF ~u.val THEN Rejected(os, raise_InputError)
             ELSE IF shape(a.gate) # <<4, 4>> THEN Rejected(os, raise_InputError)
             ELSE Forward(os, <<Call(os[self].host, "custom_controlled_two_qubit_gate",
                                     <<Ref(self), Ref(a.q1), Ref(a.q2), a.gate>>)>>,
                          env, PyNone)

custom_two_qubit_gate(os, self, a, env) ==
    IF ~isinstance_ndarray(a.gate) THEN Rejected(os, raise_InputError)
    ELSE LET u == is_unitary(a.gate)
         IN  IF u.kind = "raise" THEN Rejected(os, u)
             ELSE IF ~u.val THEN Rejected(os, raise_InputError)
             ELSE IF shape(a.gate) # <<4, 4>> THEN Rejected(os, raise_InputError)
             ELSE Forward(os, <<Call(os[self].host, "custom_two_qubit_gate",
                                     <<Ref(self), Ref(a.other_qubit), a.gate>>)>>,
                          env, PyNone)

\* ------------------------------------------------------------------ fidelity

Abs(n) == IF n < 0 THEN -n ELSE n

RECURSIVE GCD(_, _)
GCD(m, n) == IF n = 0 THEN Abs(m) ELSE GCD(n, m % Abs(n))

\* the integer k >= 0 with k * k = n
ISqrt(n) == CHOOSE k \in 0..n : k * k = n

\* The principal square root of a real number z (the root with a non-negative
\* real part; of a negative number, the one on the positive imaginary axis).
PrincipalSqrt(z) == IF z[1] >= 0 THEN <<ISqrt(z[1]), 0>> ELSE <<0, ISqrt(-z[1])>>

\* scipy.linalg.fractional_matrix_power(A, .5), the principal square root of A, on
\* the diagonal matrices the backends of the model report (real diagonal entries):
\* the root of a diagonal matrix is the diagonal matrix of the principal roots.
\* scipy computes in floating point; the entries here are plus or minus squares,
\* whose roots are exact, and the arithmetic on them is exact.
fractional_matrix_power_half(A) ==
    Array(2, [i \in 1..NRows(A) |-> [j \in 1..NCols(A) |->
        IF i = j THEN PrincipalSqrt(A.data[i][i]) ELSE Zero]])

\* np.matmul on 2-d arrays
matmul(x, y) == dot(x, y)

\* np.trace
trace(x) == CSum([i \in 1..NRows(x) |-> x.data[i][i]], NRows(x))

\* The complex quotient z / w for w # 0, as a fraction in lowest terms:
\* z / w = z * conj(w) / |w|^2.
Quotient(z, w) ==
    LET n == CMul(z, CConj(w))
        d == w[1] * w[1] + w[2] * w[2]
        g == GCD(GCD(n[1], n[2]), d)
    IN  [num |-> <<n[1] \div g, n[2] \div g>>, den |-> d \div g]

\* the replies seen by the k-th of the calls of an operation
EnvAt(env, k, ret) ==
    [failAt |-> IF env.failAt = k THEN 1 ELSE 0, err |-> env.err, ret |-> ret]

\* fidelity squaring the magnitude of the trace instead of the trace
fidelity_value_of_magnitude(self_density_mat, other_density_mat) ==
    LET root_squared_self_density_mat == fractional_matrix_power_half(self_density_mat)
        main_matrix ==
            matmul(matmul(root_squared_self_density_mat, other_density_mat),
                   root_squared_self_density_mat)
        root_squared_main_matrix == fractional_matrix_power_half(main_matrix)
        t == trace(root_squared_main_matrix)
        squared_main_matrix_trace == <<t[1] * t[1] + t[2] * t[2], 0>>
        normalizer_denominator == CMul(trace(self_density_mat), trace(other_density_mat))
    IN  IF normalizer_denominator # Zero
        THEN Quotient(squared_main_matrix_trace, normalizer_denominator)
        ELSE PyInt(-1)

\* The numerical part of Qubit.fidelity, from the two density operators on.  The
\* comparison with 0 is exact; the trace of the root is squared as it is.
fidelity_value(self_density_mat, other_density_mat) ==
    LET root_squared_self_density_mat == fractional_matrix_power_half(self_density_mat)
        main_matrix ==
            matmul(matmul(root_squared_self_density_mat, other_density_mat),
                   root_squared_self_density_mat)
        root_squared_main_matrix == fractional_matrix_power_half(main_matrix)
        root_squared_main_matrix_trace == trace(root_squared_main_matrix)
        squared_main_matrix_trace ==
            CMul(root_squared_main_matrix_trace, root_squared_main_matrix_trace)
        normalizer_denominator == CMul(trace(self_density_mat), trace(other_density_mat))
    IN  IF normalizer_denominator # Zero
        THEN Quotient(squared_main_matrix_trace, normalizer_denominator)
        ELSE PyInt(-1)

\* fidelity taking both density operators from self
fidelity_of_self_twice(os, self, a, env) ==
    LET d1 == density_operator(os, self, a, EnvAt(env, 1, env.rho[self]))
    IN  IF d1.out.kind = "raise" THEN d1
        ELSE
        LET d2 == density_operator(os, self, a, EnvAt(env, 2, env.rho[self]))
            done == d1.calls \o d2.calls
        IN  IF d2.out.kind = "raise" THEN [calls |-> done, out |-> d2.out, objs |-> os]
            ELSE [calls |-> done,
                  out |-> Return(fidelity_value(d1.out.val, d2.out.val)),
                  objs |-> os]

\* Qubit.fidelity(other_qubit).  env.rho[r] is the density operator the backend
\* reports for qubit r; each density operator is fetched by the density_operator
\* method of its own qubit.
fidelity(os, self, a, env) ==
    LET d1 == density_operator(os, self, a, EnvAt(env, 1, env.rho[self]))
    IN  IF d1.out.kind = "raise" THEN d1
        ELSE
        LET d2 == density_operator(os, a.other_qubit, a,
                                   EnvAt(env, 2, env.rho[a.other_qubit]))
            done == d1.calls \o d2.calls
        IN  IF d2.out.kind = "raise" THEN [calls |-> done, out |-> d2.out, objs |-> os]
            ELSE [calls |-> done,
                  out |-> Return(fidelity_value(d1.out.val, d2.out.val)),
                  objs |-> os]

\* ------------------------------------------------------------------ dispatch

\* the operation `name` of the Qubit class on object self
Exec(name, os, self, a, env) ==
    CASE name = "__init__" -> Qubit_init(os, self, a, env)
      [] name = "qubit.setter" -> qubit_setter(os, self, a, env)
      [] name = "host.setter" -> host_setter(os, self, a, env)
      [] name = "id.setter" -> id_setter(os, self, a, env)
      [] name = "blocked.setter" -> blocked_setter(os, self, a, env)
      [] name = "send_to" -> send_to(os, self, a, env)
      [] name = "fidelity" -> fidelity(os, self, a, env)
      [] name = "release" -> release(os, self, a, env)
      [] name = "I" -> I(os, self, a, env)
      [] name = "X" -> X(os, self, a, env)
      [] name = "Y" -> Y(os, self, a, env)
      [] name = "Z" -> Z(os, self, a, env)
      [] name = "T" -> T(os, self, a, env)
      [] name = "K" -> K(os, self, a, env)
      [] name = "H" -> H(os, self, a, env)
      [] name = "rx" -> rx(os, self, a, env)
      [] name = "ry" -> ry(os, self, a, env)
      [] name = "rz" -> rz(os, self, a, env)
      [] name = "cnot" -> cnot(os, self, a, env)
      [] name = "cphase" -> cphase(os, self, a, env)
      [] name = "custom_gate" -> custom_gate(os, self, a, env)
      [] name = "custom_controlled_gate" -> custom_controlled_gate(os, self, a, env)
      [] name = "custom_two_qubit_control_gate" ->
            custom_two_qubit_control_gate(os, self, a, env)
      [] name = "custom_two_qubit_gate" -> custom_two_qubit_gate(os, self, a, env)
      [] name = "density_operator" -> density_operator(os, self, a, env)
      [] name = "measure" -> measure(os, self, a, env)

\* One operation, start to end: the object's fields, the calls recorded by the
\* backends and the outcome seen by the caller.
Step(name, self, a, env) ==
    /\ LET r == Exec(name, objs, self, a, env)
       IN  /\ objs' = r.objs
           /\ calls' = r.calls
           /\ outcome' = r.out
    /\ op' = [name |-> name, self |-> self, args |-> a, env |-> env]
    /\ UNCHANGED <<gates, dens>>

\* -------------------------------------------------------------------- inputs

RECURSIVE Pow10(_)
Pow10(k) == IF k = 0 THEN 1 ELSE 10 * Pow10(k - 1)

Angles == {PyInt(n) : n \in 0..MaxAngle}
IdVals == {PyStr(""), PyStr("q")} \cup {PyInt(Pow10(k)) : k \in 0..MaxIdDigits}
UUIDs == {"6fa459ea-ee8a-4ca4-894e-db77e160355e"}
GivenHandles == {Handle("h_given")}
CreatedHandles == {Handle("h_created")}
SwappedHandles == {Handle("h_swapped")}
MeasureVals == {PyInt(0), PyInt(1)}

\* constructions that vary the host, the handle, the flag and the angles
CtorArgs ==
    [host : Hosts, qubit : {PyNone} \cup GivenHandles, q_id : {PyNone},
     blocked : BOOLEAN, theta : {PyNone} \cup Angles, phi : {PyNone} \cup Angles]

\* constructions that vary the id
IdCtorArgs ==
    [host : {"alice"}, qubit : {PyNone} \cup GivenHandles, q_id : {PyNone} \cup IdVals,
     blocked : {FALSE}, theta : {PyNone}, phi : {PyNone}]

\* constructions that vary the blocked flag
BlockedCtorArgs ==
    [host : {"alice"}, qubit : {PyNone}, q_id : {PyNone},
     blocked : BOOLEAN, theta : {PyNone}, phi : {PyNone}]

\* the construction behind the specifications that start from a constructed qubit
PlainCtorArgs ==
    [host : {"alice"}, qubit : {PyNone}, q_id : {PyNone},
     blocked : {FALSE}, theta : {PyNone}, phi : {PyNone}]

Ndarray(ndim, data) == [type |-> "ndarray", ndim |-> ndim, data |-> data]
PyList(data) == [type |-> "list", ndim |-> 2, data |-> data]

IdentityGate(n) == Ndarray(2, eye(n).data)
ShearGate == Ndarray(2, <<<<One, One>>, <<Zero, One>>>>)
PhaseGate == Ndarray(2, <<<<One, Zero>>, <<Zero, Imag>>>>)

\* the gate arguments tried beside the other operations
SmallGates == {PhaseGate, ShearGate, IdentityGate(4), PyList(eye(2).data)}

Diag(x, y) == Array(2, <<<<<<x, 0>>, Zero>>, <<Zero, <<y, 0>> >> >>)
Ket0 == Diag(1, 0)
Ket1 == Diag(0, 1)

\* --------------------------------------------------------------------- actions

\* the number of backend calls the operation attempts when none of them fails
Attempts(name, self, a, x) == Len(Exec(name, objs, self, a, NoFail @@ x).calls)

\* The operation under every reply of the backends: all calls succeed, or the
\* k-th call attempted raises.  x holds the values the collaborators hand back.
\* The caller catches nothing: an exception that reaches it ends its run.
Invoke(name, self, a, x) ==
    /\ outcome.kind # "raise"
    /\ \E f \in Fails(Attempts(name, self, a, x)) : Step(name, self, a, f @@ x)

NoArgs == [none |-> TRUE]
NoExtras == [none |-> TRUE]

ConstructWith(args) ==
    \E self \in Tested, a \in args, u \in UUIDs, h \in CreatedHandles :
        /\ self \notin DOMAIN objs
        /\ Invoke("__init__", self, a, [uuid |-> u, handle |-> h])

Construct == ConstructWith(CtorArgs)

ConstructId == ConstructWith(IdCtorArgs)

SetQubit ==
    \E self \in Tested \cap DOMAIN objs, q \in SwappedHandles :
        Invoke("qubit.setter", self, [qubit |-> q], NoExtras)

SetHost ==
    \E self \in Tested \cap DOMAIN objs, h \in Hosts :
        Invoke("host.setter", self, [host |-> h], NoExtras)

SetId ==
    \E self \in Tested \cap DOMAIN objs, v \in IdVals \cup {PyNone} :
        Invoke("id.setter", self, [new_id |-> v], NoExtras)

SetBlocked ==
    \E self \in Tested \cap DOMAIN objs, b \in BOOLEAN :
        Invoke("blocked.setter", self, [state |-> b], NoExtras)

SendTo ==
    \E self \in Tested \cap DOMAIN objs, h \in Hosts :
        Invoke("send_to", self, [receiver_id |-> HostId(h)], NoExtras)

Release == \E self \in Tested \cap DOMAIN objs : Invoke("release", self, NoArgs, NoExtras)

GateI == \E self \in Tested \cap DOMAIN objs : Invoke("I", self, NoArgs, NoExtras)

GateX == \E self \in Tested \cap DOMAIN objs : Invoke("X", self, NoArgs, NoExtras)

GateY == \E self \in Tested \cap DOMAIN objs : Invoke("Y", self, NoArgs, NoExtras)

GateZ == \E self \in Tested \cap DOMAIN objs : Invoke("Z", self, NoArgs, NoExtras)

GateT == \E self \in Tested \cap DOMAIN objs : Invoke("T", self, NoArgs, NoExtras)

GateK == \E self \in Tested \cap DOMAIN objs : Invoke("K", self, NoArgs, NoExtras)

GateH == \E self \in Tested \cap DOMAIN objs : Invoke("H", self, NoArgs, NoExtras)

RotX ==
    \E self \in Tested \cap DOMAIN objs, phi \in Angles :
        Invoke("rx", self, [phi |-> phi], NoExtras)

RotY ==
    \E self \in Tested \cap DOMAIN objs, phi \in Angles :
        Invoke("ry", self, [phi |-> phi], NoExtras)

RotZ ==
    \E self \in Tested \cap DOMAIN objs, phi \in Angles :
        Invoke("rz", self, [phi |-> phi], NoExtras)

Cnot ==
    \E self \in Tested \cap DOMAIN objs, t \in Partners :
        Invoke("cnot", self, [target |-> t], NoExtras)

Cphase ==
    \E self \in Tested \cap DOMAIN objs, t \in Partners :
        Invoke("cphase", self, [target |-> t], NoExtras)

CustomGate ==
    \E self \in Tested \cap DOMAIN objs, g \in gates :
        Invoke("custom_gate", self, [gate |-> g], NoExtras)

CustomControlledGate ==
    \E self \in Tested \cap DOMAIN objs, g \in gates :
        Invoke("custom_controlled_gate", self, [target |-> "q2", gate |-> g], NoExtras)

CustomTwoQubitControlGate ==
    \E self \in Tested \cap DOMAIN objs, g \in gates :
        Invoke("custom_two_qubit_control_gate", self,
               [q1 |-> "q2", q2 |-> "q3", gate |-> g], NoExtras)

CustomTwoQubitGate ==
    \E self \in Tested \cap DOMAIN objs, g \in gates :
        Invoke("custom_two_qubit_gate", self, [other_qubit |-> "q3", gate |-> g], NoExtras)

DensityOperator ==
    \E self \in Tested \cap DOMAIN objs :
        Invoke("density_operator", self, NoArgs, [ret |-> dens[self]])

Measure ==
    \E self \in Tested \cap DOMAIN objs, b \in BOOLEAN, v \in MeasureVals :
        Invoke("measure", self, [non_destructive |-> PyBool(b)], [ret |-> v])

Fidelity ==
    \E self \in Tested \cap DOMAIN objs, o \in DOMAIN objs :
        Invoke("fidelity", self, [other_qubit |-> o], [rho |-> dens])

\* -------------------------------------------------------------- specifications

DefaultDens == [r \in Refs |-> IF r = "q2" THEN Ket1 ELSE Ket0]

\* Before the caller constructs a Qubit: only the partner qubits exist.
Fresh ==
    /\ objs = PartnerObjs
    /\ calls = <<>>
    /\ outcome = [kind |-> "none"]
    /\ op = [name |-> "none"]

\* Right after a construction that the backend let succeed.
Constructed(args) ==
    \E a \in args, u \in UUIDs, h \in CreatedHandles :
        LET env == NoFail @@ [uuid |-> u, handle |-> h]
            r == Qubit_init(PartnerObjs, "q1", a, env)
        IN  /\ objs = r.objs
            /\ calls = r.calls
            /\ outcome = r.out
            /\ op = [name |-> "__init__", self |-> "q1", args |-> a, env |-> env]

\* Construction, the handle and host accessors and the plain delegations.
Init ==
    /\ Fresh
    /\ gates = SmallGates
    /\ dens = DefaultDens

Next ==
    \/ Construct
    \/ SetQubit
    \/ SetHost
    \/ SendTo
    \/ Release
    \/ GateI
    \/ GateX
    \/ GateY
    \/ GateZ
    \/ GateT
    \/ GateK
    \/ GateH
    \/ RotX
    \/ RotY
    \/ RotZ
    \/ Cnot
    \/ Cphase
    \/ DensityOperator
    \/ Measure

Spec == Init /\ [][Next]_vars

\* Construction with and without an explicit id, and the id setter.
NextId ==
    \/ ConstructId
    \/ SetId
    \/ SetHost
    \/ SetBlocked
    \/ Release

SpecId == Init /\ [][NextId]_vars

\* Every operation on a constructed qubit, with the blocked flag set either way.
InitBlocked ==
    /\ Constructed(BlockedCtorArgs)
    /\ gates = SmallGates
    /\ dens = DefaultDens

NextBlocked ==
    \/ SetBlocked
    \/ SendTo
    \/ Release
    \/ GateI
    \/ GateX
    \/ GateY
    \/ GateZ
    \/ GateT
    \/ GateK
    \/ GateH
    \/ RotX
    \/ RotY
    \/ RotZ
    \/ Cnot
    \/ Cphase
    \/ CustomGate
    \/ CustomControlledGate
    \/ CustomTwoQubitControlGate
    \/ CustomTwoQubitGate
    \/ DensityOperator
    \/ Measure
    \/ Fidelity

SpecBlocked == InitBlocked /\ [][NextBlocked]_vars

\* The gate arguments of the custom gate operations, one per behaviour.
Entries == {Zero, One, Imag}

\* arrays with every entry free
DenseShapes == {sh \in (1..MaxDense) \X (1..MaxDense) : sh[1] * sh[2] <= MaxDense}

DenseGates ==
    UNION {{Ndarray(2, d) : d \in [1..sh[1] -> [1..sh[2] -> Entries]]} : sh \in DenseShapes}

\* n x m arrays with one entry per row, on a shifted diagonal
ShiftedDiagonal(n, m, s, d) ==
    [i \in 1..n |-> [j \in 1..m |-> IF j = ((i - 1 + s) % m) + 1 THEN d[i] ELSE Zero]]

ShiftedGates ==
    UNION {{Ndarray(2, ShiftedDiagonal(n, m, s, d)) : s \in 0..(m - 1), d \in [1..n -> Entries]} :
           n \in 1..MaxDim, m \in 1..MaxDim}

\* 1-d and 0-d arrays
VectorGates == {Ndarray(1, <<v>>) : v \in [1..1 -> Entries] \cup [1..2 -> Entries]}
ScalarGates == {Ndarray(0, <<<<e>>>>) : e \in Entries}

\* values that are no arrays: nested lists, None, a number, a string
ListGates == {PyList(d) : d \in [1..2 -> [1..2 -> Entries]]}
OtherGates == {PyNone, PyInt(1), PyStr("X")}

AllGates ==
    DenseGates \cup ShiftedGates \cup VectorGates \cup ScalarGates \cup ListGates
    \cup OtherGates

InitGate ==
    /\ Constructed(PlainCtorArgs)
    /\ \E g \in AllGates : gates = {g}
    /\ dens = DefaultDens

NextGate ==
    \/ CustomGate
    \/ CustomControlledGate
    \/ CustomTwoQubitControlGate
    \/ CustomTwoQubitGate

SpecGate == InitGate /\ [][NextGate]_vars

\* The density operators the backends report, one assignment per behaviour.
DensVals == {k * k : k \in 0..MaxRoot} \cup {-(k * k) : k \in 0..MaxRoot}
DensityOps == {Diag(x, y) : x \in DensVals, y \in DensVals}

InitFid ==
    /\ Constructed(PlainCtorArgs)
    /\ gates = SmallGates
    /\ \E x \in DensityOps, y \in DensityOps :
           dens = [r \in Refs |-> IF r = "q1" THEN x ELSE IF r = "q2" THEN y ELSE Ket0]

NextFid ==
    \/ Fidelity
    \/ DensityOperator

SpecFid == InitFid /\ [][NextFid]_vars

\* ------------------------------------------------------ claims: custom gates

CustomOps == {"custom_gate", "custom_controlled_gate", "custom_two_qubit_control_gate",
              "custom_two_qubit_gate"}

\* the number of rows and columns the operation requires of its gate
RequiredDim(name) == IF name \in {"custom_gate", "custom_controlled_gate"} THEN 2 ELSE 4

\* g is a square array of d rows whose columns are orthonormal: the sum over k of
\* conj(g[k][i]) * g[k][j] is 1 for i = j and 0 otherwise
UnitaryOfDim(g, d) ==
    /\ "type" \in DOMAIN g
    /\ g.type = "ndarray"
    /\ g.ndim = 2
    /\ Len(g.data) = d
    /\ \A i \in 1..d : Len(g.data[i]) = d
    /\ \A i \in 1..d : \A j \in 1..d :
           CSum([k \in 1..d |-> CMul(CConj(g.data[k][i]), g.data[k][j])], d)
               = IF i = j THEN One ELSE Zero

\* the backend call the operation makes for a gate it accepts
ForwardedCall(o) ==
    LET h == objs[o.self].host
        me == Ref(o.self)
        g == o.args.gate
    IN  CASE o.name = "custom_gate" -> Call(h, "custom_gate", <<me, g>>)
          [] o.name = "custom_controlled_gate" ->
                Call(h, "custom_controlled_gate", <<me, Ref(o.args.target), g>>)
          [] o.name = "custom_two_qubit_control_gate" ->
                Call(h, "custom_controlled_two_qubit_gate",
                     <<me, Ref(o.args.q1), Ref(o.args.q2), g>>)
          [] o.name = "custom_two_qubit_gate" ->
                Call(h, "custom_two_qubit_gate", <<me, Ref(o.args.other_qubit), g>>)

\* C1: a custom gate operation makes its backend call, once, with the acting qubit,
\* the partner qubits and the gate it was given, exactly when the gate is an ndarray
\* that is unitary and has the shape of the arity (2 x 2 or 4 x 4); in every other
\* case the operation ends with an exception and no backend call is made.
C1_ForwardedIffValidGate ==
    op.name \in CustomOps =>
        IF UnitaryOfDim(op.args.gate, RequiredDim(op.name))
        THEN calls = <<ForwardedCall(op)>>
        ELSE calls = <<>> /\ outcome.kind = "raise"

C1_Witness ==
    /\ op.name = "custom_two_qubit_gate"
    /\ Len(calls) = 1
    /\ outcome.kind = "return"
    /\ op.args.gate # IdentityGate(4)

\* the three checks of a custom gate operation
CheckNames == {"type", "unitarity", "shape"}

\* C2: a custom gate operation that rejects its gate raises InputError and nothing
\* else, before any backend call, with a context that names the failed check.
C2_RejectionIsInputError ==
    (op.name \in CustomOps /\ outcome.kind = "raise" /\ calls = <<>>) =>
        /\ outcome.err.exc = "InputError"
        /\ outcome.err.msg \in CheckNames

\* ------------------------------------- claims: construction and delegation

IsCreate(c) == c.fn = "create_qubit"
IsGate(c) == c.fn # "create_qubit"

\* s is a prefix of t
Prefix(s, t) == Len(s) <= Len(t) /\ s = SubSeq(t, 1, Len(s))

\* C3: a construction with both angles issues ry(self, theta) and then rz(self, phi)
\* on the host's backend, once each, after the call that obtains the handle (when
\* there is one) and before it returns, and no other gate call; when the backend
\* makes the construction raise, the gate calls issued are a prefix of the two.
\* A construction with neither angle issues no gate call.
C3_InitRotations ==
    op.name = "__init__" =>
        LET a == op.args
            rotations == <<Call(a.host, "ry", <<Ref(op.self), a.theta>>),
                           Call(a.host, "rz", <<Ref(op.self), a.phi>>)>>
            creates == SelectSeq(calls, IsCreate)
            gateCalls == SelectSeq(calls, IsGate)
        IN  /\ calls = creates \o gateCalls
            /\ (a.theta = PyNone /\ a.phi = PyNone) => gateCalls = <<>>
            /\ (a.theta # PyNone /\ a.phi # PyNone /\ outcome.kind = "return") =>
                   gateCalls = rotations /\ op.self \in DOMAIN objs
            /\ (a.theta # PyNone /\ a.phi # PyNone /\ outcome.kind = "raise") =>
                   Prefix(gateCalls, rotations)

C3_Witness ==
    /\ op.name = "__init__"
    /\ op.args.theta = PyInt(0)
    /\ op.args.phi = PyInt(0)
    /\ op.args.qubit = PyNone
    /\ outcome.kind = "return"
    /\ Len(calls) = 3

\* C4: measure(b) makes the one call measure(self, b) on the backend of the qubit's
\* current host and returns the value that call returned; density_operator() makes
\* the one call density_operator(self) and returns what it returned.
C4_PassThrough ==
    /\ op.name = "measure" =>
           /\ calls = <<Call(objs[op.self].host, "measure",
                             <<Ref(op.self), op.args.non_destructive>>)>>
           /\ op.env.failAt = 0 => outcome = Return(op.env.ret)
    /\ op.name = "density_operator" =>
           /\ calls = <<Call(objs[op.self].host, "density_operator", <<Ref(op.self)>>)>>
           /\ op.env.failAt = 0 => outcome = Return(op.env.ret)

C4_Witness ==
    /\ op.name = "measure"
    /\ op.args.non_destructive = PyBool(TRUE)
    /\ objs[op.self].host = "bob"
    /\ op.args # NoArgs
    /\ outcome = Return(PyInt(1))

\* C8: when a backend call of an operation raises, the operation ends with that very
\* exception, the failing call is the last one it makes (a construction whose ry
\* raises never issues rz), and the caller never sees a normal return.
C8_BackendErrorPropagates ==
    (op.name # "none" /\ op.env.failAt > 0) =>
        /\ outcome = Raise(op.env.err)
        /\ Len(calls) = op.env.failAt
        /\ (op.name = "__init__" /\ calls[Len(calls)].fn = "ry") =>
               \A i \in 1..Len(calls) : calls[i].fn # "rz"

C8_Witness ==
    /\ op.name = "__init__"
    /\ outcome.kind = "raise"
    /\ Len(calls) = 2
    /\ calls[1].fn = "create_qubit"
    /\ calls[2].fn = "ry"

\* C9: a construction without a handle calls create_qubit(host.host_id) once on the
\* host's backend and binds its result; a construction with a handle binds that
\* handle and never calls create_qubit.  Afterwards the handle of a qubit changes
\* only through the qubit setter, which binds the value it is given.
C9_HandleAcquisition ==
    [][ /\ op'.name = "__init__" =>
               LET a == op'.args
                   creates == SelectSeq(calls', IsCreate)
               IN  IF a.qubit = PyNone
                   THEN /\ creates = <<Call(a.host, "create_qubit", <<HostId(a.host)>>)>>
                        /\ outcome'.kind = "return" =>
                               objs'[op'.self].qubit = op'.env.handle
                   ELSE /\ creates = <<>>
                        /\ outcome'.kind = "return" => objs'[op'.self].qubit = a.qubit
        /\ op'.name = "qubit.setter" => objs'[op'.self].qubit = op'.args.qubit
        /\ \A r \in DOMAIN objs :
               /\ r \in DOMAIN objs'
               /\ (op'.name # "qubit.setter" \/ r # op'.self) =>
                      objs'[r].qubit = objs[r].qubit
      ]_vars

C9_Witness ==
    /\ op.name = "release"
    /\ outcome.kind = "return"
    /\ objs[op.self].qubit = Handle("h_given")

\* --------------------------------------------------------------- claims: id

RECURSIVE DecimalOfPowerOfTen(_)
\* the decimal numeral of 10^k: a 1 followed by k zeros
DecimalOfPowerOfTen(n) == IF n = 1 THEN "1" ELSE DecimalOfPowerOfTen(n \div 10) \o "0"

\* what str() gives for the ids the model supplies
StringOf(v) ==
    IF IsStr(v) THEN v.str
    ELSE IF IsInt(v) THEN DecimalOfPowerOfTen(v.int)
    ELSE "None"

\* C5 as stated: in every reachable state the id of every qubit is a non-empty string.
C5_IdNeverEmpty == \A r \in DOMAIN objs : objs[r].id # ""

\* C5, amended: after construction the id is str(q_id) when q_id is given and the
\* generated, non-empty UUID string otherwise; it then changes only through the id
\* setter, which stores str(new_id).  So the id is empty only when the value last
\* supplied stringifies to the empty string.
C5_IdIsStringOfSupplied ==
    [][ \A r \in Tested \cap DOMAIN objs' :
            /\ CASE op'.name = "__init__" ->
                        objs'[r].id = IF op'.args.q_id = PyNone THEN op'.env.uuid
                                      ELSE StringOf(op'.args.q_id)
                 [] op'.name = "id.setter" -> objs'[r].id = StringOf(op'.args.new_id)
                 [] OTHER -> r \in DOMAIN objs /\ objs'[r].id = objs[r].id
            /\ objs'[r].id = "" =>
                   \/ op'.name = "__init__" /\ StringOf(op'.args.q_id) = ""
                   \/ op'.name = "id.setter" /\ StringOf(op'.args.new_id) = ""
                   \/ op'.name \notin {"__init__", "id.setter"} /\ objs[r].id = ""
      ]_vars

C5_Witness ==
    /\ op.name = "__init__"
    /\ op.args.q_id = PyStr("")
    /\ "q1" \in DOMAIN objs
    /\ objs["q1"].id = ""

\* --------------------------------------------------------- claims: fidelity

\* the principal square root of the real number x, which is plus or minus a square
RootOfReal(x) ==
    CHOOSE w \in (0..Abs(x)) \X (0..Abs(x)) : CMul(w, w) = <<x, 0>>

\* the diagonal entries of the model's density operators are real
DiagEntry(m, k) == m.data[k][k][1]
TraceOf(m) == DiagEntry(m, 1) + DiagEntry(m, 2)

\* (trace(sqrt(sqrt(rho) sigma sqrt(rho))))^2 for diagonal rho and sigma: the square
\* of the sum of the roots of the products of the diagonal entries
OverlapOf(rho, sigma) ==
    LET t == CAdd(RootOfReal(DiagEntry(rho, 1) * DiagEntry(sigma, 1)),
                  RootOfReal(DiagEntry(rho, 2) * DiagEntry(sigma, 2)))
    IN  CMul(t, t)

\* C6: fidelity returns the integer -1 exactly when trace(rho) * trace(sigma) is 0,
\* and otherwise the quotient of the squared trace by that product; it does not
\* raise on a zero product.
C6_FidelitySentinel ==
    (op.name = "fidelity" /\ op.env.failAt = 0) =>
        LET rho == dens[op.self]
            sigma == dens[op.args.other_qubit]
            den == TraceOf(rho) * TraceOf(sigma)
            num == OverlapOf(rho, sigma)
        IN  /\ outcome.kind = "return"
            /\ den = 0 => outcome.val = PyInt(-1)
            /\ den # 0 =>
                   /\ DOMAIN outcome.val = {"num", "den"}
                   /\ outcome.val.den > 0
                   /\ outcome.val.num[1] * den = num[1] * outcome.val.den
                   /\ outcome.val.num[2] * den = num[2] * outcome.val.den

C6_Witness ==
    /\ op.name = "fidelity"
    /\ op.env.failAt = 0
    /\ dens[op.self] = Diag(1, -1)
    /\ dens[op.args.other_qubit] = Ket0
    /\ outcome = Return(PyInt(-1))

BasisStates == {Ket0, Ket1}

\* C7: for density operators |a><a| and |b><b| of computational basis states,
\* fidelity returns 1 when a = b and 0 when a # b.
C7_FidelityOfBasisStates ==
    (/\ op.name = "fidelity"
     /\ op.env.failAt = 0
     /\ dens[op.self] \in BasisStates
     /\ dens[op.args.other_qubit] \in BasisStates) =>
        outcome = Return([num |-> IF dens[op.self] = dens[op.args.other_qubit]
                                  THEN One ELSE Zero,
                          den |-> 1])

C7_Witness ==
    /\ op.name = "fidelity"
    /\ op.args.other_qubit = "q2"
    /\ dens["q1"] = Ket0
    /\ dens["q2"] = Ket1
    /\ outcome = Return([num |-> Zero, den |-> 1])

\* ----------------------------------------------------- claims: blocked flag

\* the objects with the blocked flag of r inverted
WithFlagInverted(os, r) == [os EXCEPT ![r].blocked = ~@]

\* C10: every operation but the blocked setter makes the same backend calls and
\* ends the same way with the blocked flag set as with it cleared, and leaves the
\* flag as it was; the flag holds the value given at construction until the setter
\* stores another.
C10_BlockedIsAdvisory ==
    /\ op.name = "__init__" => objs[op.self].blocked = op.args.blocked
    /\ [][ IF op'.name = "blocked.setter"
           THEN objs'[op'.self].blocked = op'.args.state
           ELSE LET r == Exec(op'.name, WithFlagInverted(objs, op'.self), op'.self,
                              op'.args, op'.env)
                IN  /\ calls' = r.calls
                    /\ outcome' = r.out
                    /\ objs'[op'.self].blocked = objs[op'.self].blocked
                    /\ r.objs[op'.self].blocked = ~objs[op'.self].blocked
         ]_vars

C10_Witness ==
    /\ op.name = "measure"
    /\ objs[op.self].blocked
    /\ outcome = Return(PyInt(0))

====
